---- MODULE Spec2Model ----
(***************************************************************************)
(* Model of the React component ExperimentLoggedModelListPageTableEmpty   *)
(* (mlflow/server/js/src/experiment-tracking/components/                  *)
(* experiment-logged-models/ExperimentLoggedModelListPageTableEmpty.tsx). *)
(*                                                                         *)
(* A component instance has props, one useState hook and the output of    *)
(* its last render.  The event handlers are closures created by that      *)
(* render: they read the isCodeExampleVisible of the render that made     *)
(* them, and write the hook through setIsCodeExampleVisible.  React       *)
(* renders again after a write; until it does, the handlers of the old    *)
(* render stay in place.                                                   *)
(***************************************************************************)
EXTENDS Naturals, Sequences, FiniteSets, TLC

\* Mounted places in the page that hold an instance of the component.
Instances == {"a", "b"}

\* The instances whose event history is recorded.
Observed == {"a"}

\* Largest number of button clicks followed on an observed instance.
MaxClicks == 3

\* An optional prop: <<>> when the caller omits it, <<v>> when it passes v.
Undefined == <<>>

Some(v) == <<v>>

IsDefined(o) == o # Undefined

\* Messages of the Error objects a caller passes as badRequestError.
Messages == {"", "boom"}

\* The props type of the component: three optional props.
PropsDomain ==
    [displayShowExampleButton : {Undefined, Some(TRUE), Some(FALSE)},
     isFilteringActive        : {Undefined, Some(TRUE), Some(FALSE)},
     badRequestError          : {Undefined} \cup {Some(m) : m \in Messages}]

NoProps ==
    [displayShowExampleButton |-> Undefined,
     isFilteringActive        |-> Undefined,
     badRequestError          |-> Undefined]

\* A destructuring default: the default replaces an omitted prop only.
WithDefault(o, d) == IF IsDefined(o) THEN o[1] ELSE d

DisplayShowExampleButtonDefaultFalse(p) == WithDefault(p.displayShowExampleButton, FALSE)

\* displayShowExampleButton = true
DisplayShowExampleButton(p) == WithDefault(p.displayShowExampleButton, TRUE)

\* isFilteringActive = false
IsFilteringActive(p) == WithDefault(p.isFilteringActive, FALSE)

\* `badRequestError ? ... : ...`: an Error object is truthy whatever its message.
HasBadRequestError(p) == IsDefined(p.badRequestError)

\* What a render that throws leaves in place of its output.
TypeError == "TypeError"

\* badRequestError.message: reading a property of undefined throws.
ErrorMessage(p) ==
    IF IsDefined(p.badRequestError) THEN p.badRequestError[1] ELSE TypeError

TitleRequestError == "Request error"

TitleNoModelsFound == "No models found"

TitleNoModelsLogged == "No models logged"

DescriptionNoModelsFound ==
    "We couldn't find any models matching your search criteria. Try changing your search filters."

DescriptionNoModelsLogged ==
    "Your models will appear here once you log them using newest version of MLflow. <link>Learn more</link>."

DangerIcon == "DangerIcon"

NoImage == "undefined"

RenderTitleFilteringFirst(p) ==
    IF IsFilteringActive(p) THEN TitleNoModelsFound
    ELSE IF HasBadRequestError(p) THEN TitleRequestError
    ELSE TitleNoModelsLogged

\* The title prop of <Empty>.
RenderTitle(p) ==
    IF HasBadRequestError(p) THEN TitleRequestError
    ELSE IF IsFilteringActive(p) THEN TitleNoModelsFound
    ELSE TitleNoModelsLogged

RenderDescriptionFilteringFirst(p) ==
    IF IsFilteringActive(p) THEN DescriptionNoModelsFound
    ELSE IF HasBadRequestError(p) THEN ErrorMessage(p)
    ELSE DescriptionNoModelsLogged

RenderDescriptionTruthyMessage(p) ==
    IF HasBadRequestError(p) /\ ErrorMessage(p) # "" THEN ErrorMessage(p)
    ELSE IF IsFilteringActive(p) THEN DescriptionNoModelsFound
    ELSE DescriptionNoModelsLogged

RenderDescriptionEagerMessage(p) ==
    LET message == ErrorMessage(p)
    IN  IF message = TypeError THEN TypeError
        ELSE IF HasBadRequestError(p) THEN message
        ELSE IF IsFilteringActive(p) THEN DescriptionNoModelsFound
        ELSE DescriptionNoModelsLogged

\* The description prop of <Empty>.
RenderDescription(p) ==
    IF HasBadRequestError(p) THEN ErrorMessage(p)
    ELSE IF IsFilteringActive(p) THEN DescriptionNoModelsFound
    ELSE DescriptionNoModelsLogged

\* href={getMlflow3DocsLink()}: the URL the imported resolver returns.
GetMlflow3DocsLink == "getMlflow3DocsLink()"

NoLink == "none"

RenderLinkUnlessError(p) ==
    IF HasBadRequestError(p) THEN NoLink ELSE GetMlflow3DocsLink

\* The target of the <Typography.Link> in the description, when it has one.
RenderLink(p) ==
    IF HasBadRequestError(p) THEN NoLink
    ELSE IF IsFilteringActive(p) THEN NoLink
    ELSE GetMlflow3DocsLink

RenderImageUnlessFiltering(p) ==
    IF HasBadRequestError(p) /\ ~IsFilteringActive(p) THEN DangerIcon ELSE NoImage

\* The image prop of <Empty>.
RenderImage(p) == IF HasBadRequestError(p) THEN DangerIcon ELSE NoImage

RenderButtonIgnoringFilter(p) ==
    DisplayShowExampleButton(p) /\ ~HasBadRequestError(p)

RenderButtonIgnoringFlag(p) ==
    ~IsFilteringActive(p) /\ ~HasBadRequestError(p)

\* The button prop of <Empty>: TRUE for the <Button>, FALSE for null.
RenderButton(p) ==
    DisplayShowExampleButton(p) /\ ~IsFilteringActive(p) /\ ~HasBadRequestError(p)

\* const EXAMPLE_INSTALL_CODE: the text of the template literal.
EXAMPLE_INSTALL_CODE == "pip install 'mlflow>=3'"

\* The template literal of EXAMPLE_CODE before .trim(), line by line: it
\* opens with a line break, so its first line is empty.
ExampleCodeTemplate ==
    <<"",
      "import pandas as pd",
      "from sklearn.linear_model import ElasticNet",
      "from sklearn.metrics import mean_squared_error, mean_absolute_error, r2_score",
      "from sklearn.datasets import load_iris",
      "from sklearn.model_selection import train_test_split",
      "",
      "import mlflow",
      "import mlflow.sklearn",
      "from mlflow.entities import Dataset",
      "",
      "# Helper function to compute metrics",
      "def compute_metrics(actual, predicted):",
      "    rmse = mean_squared_error(actual, predicted) ",
      "    mae = mean_absolute_error(actual, predicted)",
      "    r2 = r2_score(actual, predicted)",
      "    return rmse, mae, r2",
      "",
      "# Load Iris dataset and prepare the DataFrame",
      "iris = load_iris()",
      "iris_df = pd.DataFrame(data=iris.data, columns=iris.feature_names)",
      "iris_df['quality'] = (iris.target == 2).astype(int)  # Create a binary target for simplicity",
      "",
      "# Split into training and testing datasets",
      "train_df, test_df = train_test_split(iris_df, test_size=0.2, random_state=42)",
      "",
      "# Start a run to represent the training job",
      "with mlflow.start_run() as training_run:",
      "    # Load the training dataset with MLflow. We will link training metrics to this dataset.",
      "    train_dataset: Dataset = mlflow.data.from_pandas(train_df, name=\"train\")",
      "    train_x = train_dataset.df.drop([\"quality\"], axis=1)",
      "    train_y = train_dataset.df[[\"quality\"]]",
      "",
      "    # Fit a model to the training dataset",
      "    lr = ElasticNet(alpha=0.5, l1_ratio=0.5, random_state=42)",
      "    lr.fit(train_x, train_y)",
      "",
      "    # Log the model, specifying its ElasticNet parameters (alpha, l1_ratio)",
      "    # As a new feature, the LoggedModel entity is linked to its name and params",
      "    model_info = mlflow.sklearn.log_model(",
      "        sk_model=lr,",
      "        name=\"elasticnet\",",
      "        params={",
      "            \"alpha\": 0.5,",
      "            \"l1_ratio\": 0.5,",
      "        },",
      "        input_example = train_x",
      "    )",
      "",
      "    # Inspect the LoggedModel and its properties",
      "    logged_model = mlflow.get_logged_model(model_info.model_id)",
      "    print(logged_model.model_id, logged_model.params)",
      "",
      "    # Evaluate the model on the training dataset and log metrics",
      "    # These metrics are now linked to the LoggedModel entity",
      "    predictions = lr.predict(train_x)",
      "    (rmse, mae, r2) = compute_metrics(train_y, predictions)",
      "    mlflow.log_metrics(",
      "        metrics={",
      "            \"rmse\": rmse,",
      "            \"r2\": r2,",
      "            \"mae\": mae,",
      "        },",
      "        model_id=logged_model.model_id,",
      "        dataset=train_dataset",
      "    )",
      "",
      "    # Inspect the LoggedModel, now with metrics",
      "    logged_model = mlflow.get_logged_model(model_info.model_id)",
      "    print(logged_model.model_id, logged_model.metrics)">>

\* A line that String.prototype.trim() removes from either end of a text.
IsBlankLine(l) == l = ""

\* .trim() on a text whose first and last non-blank lines start and end with
\* a non-blank character: the blank lines at both ends go, the rest stays.
Trim(ls) ==
    LET kept == {k \in 1..Len(ls) : ~IsBlankLine(ls[k])}
        first == CHOOSE k \in kept : \A m \in kept : k <= m
        last == CHOOSE k \in kept : \A m \in kept : m <= k
    IN  IF kept = {} THEN <<>> ELSE SubSeq(ls, first, last)

\* The text made of the lines ls, a line break between two lines.
JoinLines(ls) ==
    LET join[k \in 1..Len(ls)] ==
            IF k = Len(ls) THEN ls[k] ELSE ls[k] \o "\n" \o join[k + 1]
    IN  IF ls = <<>> THEN "" ELSE join[1]

EXAMPLE_CODE_Untrimmed == JoinLines(ExampleCodeTemplate)

\* const EXAMPLE_CODE = `...`.trim()
EXAMPLE_CODE == JoinLines(Trim(ExampleCodeTemplate))

\* The module-level constants of the source file, by name.
ModuleConstants == {"EXAMPLE_INSTALL_CODE", "EXAMPLE_CODE"}

\* The text a module-level constant holds; no code assigns to one.
ConstantText(name) ==
    CASE name = "EXAMPLE_INSTALL_CODE" -> EXAMPLE_INSTALL_CODE
      [] name = "EXAMPLE_CODE" -> EXAMPLE_CODE

\* <CodeSnippet language=...>{children}</CodeSnippet>: children names the
\* module-level constant the snippet is given.
CodeSnippet(language, children) == [language |-> language, children |-> children]

\* The code snippets among the children of <Modal>, in order.
ModalSnippets ==
    <<CodeSnippet("text", "EXAMPLE_INSTALL_CODE"),
      CodeSnippet("python", "EXAMPLE_CODE")>>

RenderHidingButtonWhileOpen(p, visible) ==
    [title        |-> RenderTitle(p),
     description  |-> RenderDescription(p),
     link         |-> RenderLink(p),
     image        |-> RenderImage(p),
     button       |-> RenderButton(p) /\ ~visible,
     modalVisible |-> visible,
     modalSnippets |-> ModalSnippets]

\* What one call of the component function returns, given the props and the
\* value useState returned to it.
Render(p, visible) ==
    [title        |-> RenderTitle(p),
     description  |-> RenderDescription(p),
     link         |-> RenderLink(p),
     image        |-> RenderImage(p),
     button       |-> RenderButton(p),
     modalVisible |-> visible,
     modalSnippets |-> ModalSnippets]

\* useState(false)
UseStateInitial == FALSE

\* Nothing is on the page for an unmounted instance.
NoView ==
    [title |-> "", description |-> "", link |-> NoLink, image |-> NoImage, button |-> FALSE,
     modalVisible |-> FALSE, modalSnippets |-> <<>>]

\* The render throws: an expression of it reads a property of undefined.
RenderThrows(p) == RenderDescription(p) = TypeError

\* What a render leaves on the page: its output, or nothing when it throws.
Output(p, visible) == IF RenderThrows(p) THEN NoView ELSE Render(p, visible)

VARIABLES
    mounted,               \* mounted[i]: instance i is on the page
    props,                 \* props[i]: the props of the last render of i
    hookState,             \* hookState[i]: the state React holds for the hook of i
    isCodeExampleVisible,  \* isCodeExampleVisible[i]: the const of the last render of i
    view,                  \* view[i]: what the last render of i returned
    raised,                \* raised[i]: the last render of i threw
    clicks,                \* clicks[i]: button clicks on i since it was mounted
    closes,                \* closes[i]: an onCancel or onOk ran on i since it was mounted
    clicksSinceClose,      \* clicksSinceClose[i]: clicks on i since its last onCancel,
                           \*     onOk or mount
    inOrder,               \* inOrder[i]: since i was mounted, every click, onCancel and
                           \*     onOk ran after the write before it was rendered
    unmountedOpen          \* unmountedOpen[i]: the last unmount of i dropped an open modal

vars ==
    <<mounted, props, hookState, isCodeExampleVisible, view, raised, clicks, closes,
      clicksSinceClose, inOrder, unmountedOpen>>

history == <<clicks, closes, clicksSinceClose, inOrder, unmountedOpen>>

\* Every instance has just been mounted by its parent with some props.
Init ==
    /\ mounted = [i \in Instances |-> TRUE]
    /\ props \in [Instances -> PropsDomain]
    /\ hookState = [i \in Instances |-> UseStateInitial]
    /\ isCodeExampleVisible = [i \in Instances |-> UseStateInitial]
    /\ view = [i \in Instances |-> Output(props[i], UseStateInitial)]
    /\ raised = [i \in Instances |-> RenderThrows(props[i])]
    /\ clicks = [i \in Observed |-> 0]
    /\ closes = [i \in Observed |-> FALSE]
    /\ clicksSinceClose = [i \in Observed |-> 0]
    /\ inOrder = [i \in Observed |-> TRUE]
    /\ unmountedOpen = [i \in Observed |-> FALSE]

\* The record of the events of an observed instance; the other instances
\* keep none.
Record(h, i, v) == IF i \in Observed THEN [h EXCEPT ![i] = v] ELSE h

MountRestoring(i) ==
    /\ ~mounted[i]
    /\ \E p \in PropsDomain :
        /\ props' = [props EXCEPT ![i] = p]
        /\ view' = [view EXCEPT ![i] = Output(p, i \in Observed /\ unmountedOpen[i])]
        /\ raised' = [raised EXCEPT ![i] = RenderThrows(p)]
    /\ mounted' = [mounted EXCEPT ![i] = TRUE]
    /\ hookState' = [hookState EXCEPT ![i] = i \in Observed /\ unmountedOpen[i]]
    /\ isCodeExampleVisible' =
           [isCodeExampleVisible EXCEPT ![i] = i \in Observed /\ unmountedOpen[i]]
    /\ clicks' = Record(clicks, i, 0)
    /\ closes' = Record(closes, i, FALSE)
    /\ clicksSinceClose' = Record(clicksSinceClose, i, 0)
    /\ inOrder' = Record(inOrder, i, TRUE)
    /\ UNCHANGED unmountedOpen

\* The parent mounts the component: first render, fresh hook.
Mount(i) ==
    /\ ~mounted[i]
    /\ \E p \in PropsDomain :
        /\ props' = [props EXCEPT ![i] = p]
        /\ view' = [view EXCEPT ![i] = Output(p, UseStateInitial)]
        /\ raised' = [raised EXCEPT ![i] = RenderThrows(p)]
    /\ mounted' = [mounted EXCEPT ![i] = TRUE]
    /\ hookState' = [hookState EXCEPT ![i] = UseStateInitial]
    /\ isCodeExampleVisible' = [isCodeExampleVisible EXCEPT ![i] = UseStateInitial]
    /\ clicks' = Record(clicks, i, 0)
    /\ closes' = Record(closes, i, FALSE)
    /\ clicksSinceClose' = Record(clicksSinceClose, i, 0)
    /\ inOrder' = Record(inOrder, i, TRUE)
    /\ UNCHANGED unmountedOpen

\* The parent removes the component: React drops its hook and its output.
Unmount(i) ==
    /\ mounted[i]
    /\ mounted' = [mounted EXCEPT ![i] = FALSE]
    /\ props' = [props EXCEPT ![i] = NoProps]
    /\ hookState' = [hookState EXCEPT ![i] = FALSE]
    /\ isCodeExampleVisible' = [isCodeExampleVisible EXCEPT ![i] = FALSE]
    /\ view' = [view EXCEPT ![i] = NoView]
    /\ raised' = [raised EXCEPT ![i] = FALSE]
    /\ clicks' = Record(clicks, i, 0)
    /\ closes' = Record(closes, i, FALSE)
    /\ clicksSinceClose' = Record(clicksSinceClose, i, 0)
    /\ inOrder' = Record(inOrder, i, TRUE)
    /\ unmountedOpen' = Record(unmountedOpen, i, hookState[i])

SetPropsResetting(i) ==
    /\ mounted[i]
    /\ \E p \in PropsDomain :
        /\ p # props[i]
        /\ props' = [props EXCEPT ![i] = p]
        /\ view' = [view EXCEPT ![i] = Output(p, hookState[i] /\ RenderButton(p))]
        /\ raised' = [raised EXCEPT ![i] = RenderThrows(p)]
        /\ hookState' = [hookState EXCEPT ![i] = @ /\ RenderButton(p)]
        /\ isCodeExampleVisible' =
               [isCodeExampleVisible EXCEPT ![i] = hookState[i] /\ RenderButton(p)]
    /\ UNCHANGED <<mounted, history>>

\* The parent renders the component again with other props; the render reads
\* the hook as it is now.
SetProps(i) ==
    /\ mounted[i]
    /\ \E p \in PropsDomain :
        /\ p # props[i]
        /\ props' = [props EXCEPT ![i] = p]
        /\ view' = [view EXCEPT ![i] = Output(p, hookState[i])]
        /\ raised' = [raised EXCEPT ![i] = RenderThrows(p)]
    /\ isCodeExampleVisible' = [isCodeExampleVisible EXCEPT ![i] = hookState[i]]
    /\ UNCHANGED <<mounted, hookState, history>>

\* React renders the component again after a write that changed the hook.
Rerender(i) ==
    /\ mounted[i]
    /\ hookState[i] # isCodeExampleVisible[i]
    /\ isCodeExampleVisible' = [isCodeExampleVisible EXCEPT ![i] = hookState[i]]
    /\ view' = [view EXCEPT ![i] = Output(props[i], hookState[i])]
    /\ raised' = [raised EXCEPT ![i] = RenderThrows(props[i])]
    /\ UNCHANGED <<mounted, props, hookState, history>>

ClickShared(i) ==
    /\ mounted[i]
    /\ view[i].button
    /\ i \in Observed => clicks[i] < MaxClicks
    /\ hookState' = [j \in Instances |-> IF mounted[j] THEN ~isCodeExampleVisible[i]
                                          ELSE hookState[j]]
    /\ clicks' = IF i \in Observed THEN [clicks EXCEPT ![i] = @ + 1] ELSE clicks
    /\ clicksSinceClose' =
           IF i \in Observed THEN [clicksSinceClose EXCEPT ![i] = @ + 1]
           ELSE clicksSinceClose
    /\ inOrder' =
           IF i \in Observed
           THEN [inOrder EXCEPT ![i] = @ /\ hookState[i] = isCodeExampleVisible[i]]
           ELSE inOrder
    /\ UNCHANGED <<mounted, props, isCodeExampleVisible, view, raised, closes,
                   unmountedOpen>>

ClickSettingTrue(i) ==
    /\ mounted[i]
    /\ view[i].button
    /\ i \in Observed => clicks[i] < MaxClicks
    /\ hookState' = [hookState EXCEPT ![i] = TRUE]
    /\ clicks' = IF i \in Observed THEN [clicks EXCEPT ![i] = @ + 1] ELSE clicks
    /\ clicksSinceClose' =
           IF i \in Observed THEN [clicksSinceClose EXCEPT ![i] = @ + 1]
           ELSE clicksSinceClose
    /\ inOrder' =
           IF i \in Observed
           THEN [inOrder EXCEPT ![i] = @ /\ hookState[i] = isCodeExampleVisible[i]]
           ELSE inOrder
    /\ UNCHANGED <<mounted, props, isCodeExampleVisible, view, raised, closes,
                   unmountedOpen>>

\* onClick={() => setIsCodeExampleVisible(!isCodeExampleVisible)} of the
\* <Button> of the last render.
Click(i) ==
    /\ mounted[i]
    /\ view[i].button
    /\ i \in Observed => clicks[i] < MaxClicks
    /\ hookState' = [hookState EXCEPT ![i] = ~isCodeExampleVisible[i]]
    /\ clicks' = IF i \in Observed THEN [clicks EXCEPT ![i] = @ + 1] ELSE clicks
    /\ clicksSinceClose' =
           IF i \in Observed THEN [clicksSinceClose EXCEPT ![i] = @ + 1]
           ELSE clicksSinceClose
    /\ inOrder' =
           IF i \in Observed
           THEN [inOrder EXCEPT ![i] = @ /\ hookState[i] = isCodeExampleVisible[i]]
           ELSE inOrder
    /\ UNCHANGED <<mounted, props, isCodeExampleVisible, view, raised, closes,
                   unmountedOpen>>

CancelToggling(i) ==
    /\ mounted[i]
    /\ hookState' = [hookState EXCEPT ![i] = ~isCodeExampleVisible[i]]
    /\ closes' = Record(closes, i, TRUE)
    /\ clicksSinceClose' = Record(clicksSinceClose, i, 0)
    /\ inOrder' =
           IF i \in Observed
           THEN [inOrder EXCEPT ![i] = @ /\ hookState[i] = isCodeExampleVisible[i]]
           ELSE inOrder
    /\ UNCHANGED <<mounted, props, isCodeExampleVisible, view, raised, clicks,
                   unmountedOpen>>

\* onCancel={() => setIsCodeExampleVisible(false)} of the <Modal>.
Cancel(i) ==
    /\ mounted[i]
    /\ hookState' = [hookState EXCEPT ![i] = FALSE]
    /\ closes' = Record(closes, i, TRUE)
    /\ clicksSinceClose' = Record(clicksSinceClose, i, 0)
    /\ inOrder' =
           IF i \in Observed
           THEN [inOrder EXCEPT ![i] = @ /\ hookState[i] = isCodeExampleVisible[i]]
           ELSE inOrder
    /\ UNCHANGED <<mounted, props, isCodeExampleVisible, view, raised, clicks,
                   unmountedOpen>>

OkToggling(i) ==
    /\ mounted[i]
    /\ hookState' = [hookState EXCEPT ![i] = ~isCodeExampleVisible[i]]
    /\ closes' = Record(closes, i, TRUE)
    /\ clicksSinceClose' = Record(clicksSinceClose, i, 0)
    /\ inOrder' =
           IF i \in Observed
           THEN [inOrder EXCEPT ![i] = @ /\ hookState[i] = isCodeExampleVisible[i]]
           ELSE inOrder
    /\ UNCHANGED <<mounted, props, isCodeExampleVisible, view, raised, clicks,
                   unmountedOpen>>

\* onOk={() => setIsCodeExampleVisible(false)} of the <Modal>.
Ok(i) ==
    /\ mounted[i]
    /\ hookState' = [hookState EXCEPT ![i] = FALSE]
    /\ closes' = Record(closes, i, TRUE)
    /\ clicksSinceClose' = Record(clicksSinceClose, i, 0)
    /\ inOrder' =
           IF i \in Observed
           THEN [inOrder EXCEPT ![i] = @ /\ hookState[i] = isCodeExampleVisible[i]]
           ELSE inOrder
    /\ UNCHANGED <<mounted, props, isCodeExampleVisible, view, raised, clicks,
                   unmountedOpen>>

Next ==
    \E i \in Instances :
        \/ Mount(i)
        \/ Unmount(i)
        \/ SetProps(i)
        \/ Rerender(i)
        \/ Click(i)
        \/ Cancel(i)
        \/ Ok(i)

Spec == Init /\ [][Next]_vars

(***************************************************************************)
(* Properties                                                              *)
(***************************************************************************)

\* The hook of i holds what the last render of i showed: no write waits for
\* a render.
Settled(i) == hookState[i] = isCodeExampleVisible[i]

\* i has seen no click, cancel or OK since it was mounted.
Fresh(i) == mounted[i] /\ clicks[i] = 0 /\ ~closes[i]

Odd(n) == n % 2 = 1

\* The panel of a render: everything <Empty> is given.
Panel(v) == <<v.title, v.description, v.image, v.button>>

\* C1: whenever badRequestError is passed (an Error with an empty message
\* included), the title on the page is "Request error", whatever
\* isFilteringActive, displayShowExampleButton and the modal visibility are.
C1_ErrorTitle ==
    \A i \in Instances :
        (mounted[i] /\ props[i].badRequestError # Undefined)
            => view[i].title = "Request error"

C1_Witness ==
    \E i \in Instances :
        /\ mounted[i]
        /\ props[i].badRequestError = Some("")
        /\ props[i].isFilteringActive = Some(TRUE)
        /\ props[i].displayShowExampleButton = Some(TRUE)
        /\ view[i].modalVisible
        /\ view[i].title = "Request error"

\* C2: whenever badRequestError is absent and isFilteringActive is true, the
\* title is "No models found" and no button is rendered, whatever
\* displayShowExampleButton is.
C2_FilteredEmpty ==
    \A i \in Instances :
        (/\ mounted[i]
         /\ props[i].badRequestError = Undefined
         /\ props[i].isFilteringActive = Some(TRUE))
            => (view[i].title = "No models found" /\ ~view[i].button)

C2_Witness ==
    \E i \in Instances :
        /\ mounted[i]
        /\ props[i].badRequestError = Undefined
        /\ props[i].isFilteringActive = Some(TRUE)
        /\ props[i].displayShowExampleButton = Some(TRUE)
        /\ view[i].title = "No models found"
        /\ ~view[i].button

\* C3: the button is rendered exactly when displayShowExampleButton is true
\* (passed as true, or omitted and so true by default), isFilteringActive is
\* not true and badRequestError is absent.
C3_ButtonIff ==
    \A i \in Instances :
        mounted[i] =>
            (view[i].button <=>
                (/\ props[i].displayShowExampleButton # Some(FALSE)
                 /\ props[i].isFilteringActive # Some(TRUE)
                 /\ props[i].badRequestError = Undefined))

C3_Witness ==
    \E i, j \in Instances :
        /\ mounted[i] /\ mounted[j]
        /\ props[i].displayShowExampleButton = Some(FALSE)
        /\ props[i].isFilteringActive = Some(FALSE)
        /\ props[i].badRequestError = Undefined
        /\ ~view[i].button
        /\ props[j].displayShowExampleButton = Some(TRUE)
        /\ props[j].isFilteringActive = Some(FALSE)
        /\ props[j].badRequestError = Undefined
        /\ view[j].button

\* C4: on an instance that has seen only button clicks since it was mounted,
\* once React has rendered every write, the modal is open exactly when the
\* number of clicks is odd.
C4_ClickParity ==
    \A i \in Observed :
        (mounted[i] /\ ~closes[i] /\ Settled(i))
            => (view[i].modalVisible <=> Odd(clicks[i]))

\* C5: whenever badRequestError is passed, the description is its message as
\* it is, and no button is rendered.
C5_ErrorDescription ==
    \A i \in Instances :
        (mounted[i] /\ props[i].badRequestError # Undefined)
            => (/\ view[i].description = props[i].badRequestError[1]
                /\ ~view[i].button)

C5_Witness ==
    \E i \in Instances :
        /\ mounted[i]
        /\ props[i].badRequestError = Some("boom")
        /\ props[i].displayShowExampleButton = Some(TRUE)
        /\ view[i].title = "Request error"
        /\ view[i].description = "boom"
        /\ ~view[i].button

\* C6: with every prop omitted the title is "No models logged" and the button
\* is rendered, and after one click on a freshly mounted instance, once
\* rendered, the modal is visible.
C6_Defaults ==
    \A i \in Observed :
        (mounted[i] /\ props[i] = NoProps)
            => (/\ view[i].title = "No models logged"
                /\ view[i].button
                /\ (clicks[i] = 1 /\ ~closes[i] /\ Settled(i))
                       => view[i].modalVisible)

C6_Witness ==
    \E i \in Observed :
        /\ mounted[i]
        /\ props[i] = NoProps
        /\ clicks[i] = 1
        /\ ~closes[i]
        /\ view[i].button
        /\ view[i].modalVisible

\* C7: an instance that has seen no event since it was mounted has its modal
\* closed: at the first mount, and at a mount that follows an unmount,
\* whatever the modal was when the instance was unmounted.
C7_MountClosed ==
    \A i \in Observed :
        Fresh(i) =>
            (~hookState[i] /\ ~isCodeExampleVisible[i] /\ ~view[i].modalVisible)

C7_Witness ==
    \E i \in Observed :
        /\ Fresh(i)
        /\ unmountedOpen[i]
        /\ ~view[i].modalVisible

\* C8: in every state, whatever the props are, onCancel and onOk leave the
\* hook at false, which is what the next render gives the modal.
C8_CloseCloses ==
    [][\A i \in Instances : (Cancel(i) \/ Ok(i)) => ~hookState'[i]]_vars

C8_Witness ==
    \E i \in Observed :
        /\ mounted[i]
        /\ closes[i]
        /\ view[i].modalVisible
        /\ ~view[i].button
        /\ ~hookState[i]

\* C9: two mounted instances with the same props show the same title,
\* description, image and button, whatever their modal visibility and the
\* events they have seen.
C9_PanelFromPropsOnly ==
    \A i, j \in Instances :
        (mounted[i] /\ mounted[j] /\ props[i] = props[j])
            => Panel(view[i]) = Panel(view[j])

C9_Witness ==
    \E i \in Observed : \E j \in Instances \ Observed :
        /\ mounted[i] /\ mounted[j]
        /\ props[i] = props[j]
        /\ view[i].button
        /\ clicks[i] = 2
        /\ closes[i]
        /\ view[i].modalVisible
        /\ ~view[j].modalVisible
        /\ ~hookState[j]

\* C10: the title and the description are those of exactly one display
\* state: the error state exactly when badRequestError is passed, the
\* filtered-empty state exactly when it is not and isFilteringActive is true,
\* the truly-empty state exactly when neither holds.
C10_Precedence ==
    \A i \in Instances :
        mounted[i] =>
            LET e == props[i].badRequestError # Undefined
                f == props[i].isFilteringActive = Some(TRUE)
                requestError == /\ view[i].title = "Request error"
                                /\ view[i].description \in Messages
                filteredEmpty == /\ view[i].title = "No models found"
                                 /\ view[i].description = DescriptionNoModelsFound
                trulyEmpty == /\ view[i].title = "No models logged"
                              /\ view[i].description = DescriptionNoModelsLogged
            IN  /\ requestError <=> e
                /\ filteredEmpty <=> (~e /\ f)
                /\ trulyEmpty <=> (~e /\ ~f)

C10_Witness ==
    \E i \in Instances :
        /\ mounted[i]
        /\ props[i].badRequestError = Some("boom")
        /\ props[i].isFilteringActive = Some(TRUE)
        /\ view[i].title = "Request error"
        /\ view[i].description = "boom"

\* C11: in every state and for all props, the modal holds a text snippet
\* with the install command pip install 'mlflow>=3' followed by a python
\* snippet with the example script: the text of the template literal
\* between its first and last non-blank characters, 2514 characters long.
C11_ModalContent ==
    LET script == ConstantText("EXAMPLE_CODE")
    IN  /\ ConstantText("EXAMPLE_INSTALL_CODE") = "pip install 'mlflow>=3'"
        /\ script = JoinLines(SubSeq(ExampleCodeTemplate, 2, Len(ExampleCodeTemplate)))
        /\ Len(script) = 2514
        /\ \A i \in Instances :
               mounted[i] =>
                   view[i].modalSnippets =
                       <<[language |-> "text", children |-> "EXAMPLE_INSTALL_CODE"],
                         [language |-> "python", children |-> "EXAMPLE_CODE"]>>

C11_Witness ==
    \E i \in Observed :
        /\ mounted[i]
        /\ view[i].modalVisible
        /\ props[i].badRequestError = Some("boom")
        /\ clicks[i] > 0
        /\ closes[i]
        /\ unmountedOpen[i]
        /\ view[i].modalSnippets[1].children = "EXAMPLE_INSTALL_CODE"
        /\ view[i].modalSnippets[2].children = "EXAMPLE_CODE"

\* C12: no render of any instance throws, whatever the props and whatever
\* clicks, cancels, OKs, prop changes and remounts came before.
C12_NoError ==
    \A i \in Instances : ~raised[i] /\ view[i].description # TypeError

C12_Witness ==
    \E i \in Observed :
        /\ mounted[i]
        /\ ~raised[i]
        /\ clicks[i] > 0
        /\ closes[i]
        /\ unmountedOpen[i]
        /\ props[i].badRequestError = Some("")
        /\ view[i].modalVisible

\* C13: every click writes the negation of the value the hook holds when the
\* click is handled.
C13_ClickFlips ==
    [][\A i \in Instances : Click(i) => hookState'[i] = ~hookState[i]]_vars

\* C14: the hook goes from false to true only in a click on the button,
\* made while displayShowExampleButton is true, isFilteringActive is not and
\* badRequestError is absent; the modal comes into view only in a render
\* that shows a hook already true.
C14_OpenedByClick ==
    [][\A i \in Instances :
          /\ (~hookState[i] /\ hookState'[i]) =>
                 /\ Click(i)
                 /\ props[i].displayShowExampleButton # Some(FALSE)
                 /\ props[i].isFilteringActive # Some(TRUE)
                 /\ props[i].badRequestError = Undefined
          /\ (~view[i].modalVisible /\ view'[i].modalVisible) => hookState[i]]_vars

C14_Witness ==
    \E i \in Observed :
        /\ mounted[i]
        /\ hookState[i]
        /\ view[i].modalVisible
        /\ view[i].button
        /\ clicks[i] = 1
        /\ ~closes[i]

\* C15: title, description and link are those of one display state: the
\* error title with the error message, the filtered-empty title with the
\* change-your-filters text, the truly-empty title with the text that holds
\* the "Learn more" link to getMlflow3DocsLink(); only the truly-empty state
\* has the link.
C15_TitleMatchesDescription ==
    \A i \in Instances :
        mounted[i] =>
            LET e == props[i].badRequestError # Undefined
                f == props[i].isFilteringActive = Some(TRUE)
                v == view[i]
            IN  /\ e => /\ v.title = "Request error"
                        /\ v.description = props[i].badRequestError[1]
                /\ (~e /\ f) => /\ v.title = "No models found"
                                /\ v.description = DescriptionNoModelsFound
                /\ (~e /\ ~f) => /\ v.title = "No models logged"
                                 /\ v.description = DescriptionNoModelsLogged
                                 /\ v.link = "getMlflow3DocsLink()"
                /\ (v.link # NoLink) <=> (~e /\ ~f)

C15_Witness ==
    \E i, j \in Instances :
        /\ mounted[i] /\ mounted[j]
        /\ view[i].title = "No models logged"
        /\ view[i].link = "getMlflow3DocsLink()"
        /\ props[j].badRequestError = Undefined
        /\ view[j].title = "No models found"
        /\ view[j].link = NoLink

\* C16: a click, cancel or OK on one instance leaves the hook, the captured
\* value and the page of every other instance as they were, and the hook of
\* an instance that stays mounted changes only in its own click, cancel or OK.
C16_OwnFlagOnly ==
    [][\A i \in Instances :
          /\ \A j \in Instances \ {i} :
                 (Click(i) \/ Cancel(i) \/ Ok(i)) =>
                     /\ hookState'[j] = hookState[j]
                     /\ isCodeExampleVisible'[j] = isCodeExampleVisible[j]
                     /\ view'[j] = view[j]
          /\ (mounted[i] /\ mounted'[i] /\ hookState'[i] # hookState[i]) =>
                 (Click(i) \/ Cancel(i) \/ Ok(i))]_vars

C16_Witness ==
    \E i \in Observed : \E j \in Instances \ Observed :
        /\ mounted[i] /\ mounted[j]
        /\ view[i].button /\ view[j].button
        /\ clicks[i] = 1
        /\ hookState[i] /\ view[i].modalVisible
        /\ ~hookState[j] /\ ~view[j].modalVisible

\* C17: a change of props leaves the hook as it is and the render shows it;
\* an open modal whose button is not rendered is closed only by onCancel or
\* onOk, as long as the instance stays mounted.
C17_PropsKeepFlag ==
    [][\A i \in Instances :
          /\ (mounted[i] /\ mounted'[i] /\ props'[i] # props[i]) =>
                 /\ hookState'[i] = hookState[i]
                 /\ view'[i].modalVisible = hookState[i]
          /\ (/\ mounted[i] /\ mounted'[i]
              /\ hookState[i] /\ ~view[i].button
              /\ ~hookState'[i]) => (Cancel(i) \/ Ok(i))]_vars

C17_Witness ==
    \E i \in Observed :
        /\ mounted[i]
        /\ clicks[i] = 1
        /\ ~closes[i]
        /\ props[i].isFilteringActive = Some(TRUE)
        /\ ~view[i].button
        /\ hookState[i]
        /\ view[i].modalVisible

\* C18: onCancel and onOk are the same step; either leaves the hook false,
\* and on a hook that is false already it changes nothing of the instance.
C18_CloseIdempotent ==
    [][\A i \in Instances :
          /\ Cancel(i) <=> Ok(i)
          /\ (Cancel(i) \/ Ok(i)) =>
                 /\ ~hookState'[i]
                 /\ ~hookState[i] =>
                        UNCHANGED <<mounted, props, hookState, isCodeExampleVisible,
                                    view, raised>>]_vars

C18_Witness ==
    \E i \in Observed :
        /\ mounted[i]
        /\ closes[i]
        /\ clicks[i] = 0
        /\ ~hookState[i]
        /\ ~view[i].modalVisible

\* C19: on an instance with the button rendered whose clicks, cancels and
\* OKs each ran after the write before it was rendered, once the last write
\* is rendered the modal is open exactly when the number of clicks since the
\* last cancel or OK (since the mount, if there was none) is odd.
C19_ParitySinceClose ==
    \A i \in Observed :
        (mounted[i] /\ inOrder[i] /\ Settled(i) /\ view[i].button)
            => (view[i].modalVisible <=> Odd(clicksSinceClose[i]))

C19_Witness ==
    \E i \in Observed :
        /\ mounted[i]
        /\ inOrder[i]
        /\ Settled(i)
        /\ view[i].button
        /\ closes[i]
        /\ clicks[i] = 2
        /\ clicksSinceClose[i] = 1
        /\ view[i].modalVisible

\* C20: a click, cancel or OK, and the render React makes after it, leave
\* the props of every instance and the title, description, image and button
\* of the instance as they were.
C20_EventsKeepPanel ==
    [][\A i \in Instances :
          (Click(i) \/ Cancel(i) \/ Ok(i) \/ Rerender(i)) =>
              /\ props' = props
              /\ mounted' = mounted
              /\ Panel(view'[i]) = Panel(view[i])]_vars

C20_Witness ==
    \E i \in Observed :
        /\ mounted[i]
        /\ props[i].displayShowExampleButton = Some(TRUE)
        /\ clicks[i] = 1
        /\ inOrder[i]
        /\ view[i].button
        /\ view[i].modalVisible
        /\ view[i].title = "No models logged"

\* C21: the danger icon is the image of the panel exactly when
\* badRequestError is passed; with no error, filtering or not, the panel has
\* no image.
C21_DangerIconIffError ==
    \A i \in Instances :
        mounted[i] =>
            /\ (view[i].image = "DangerIcon") <=> (props[i].badRequestError # Undefined)
            /\ (props[i].badRequestError = Undefined) => view[i].image = NoImage

C21_Witness ==
    \E i, j \in Instances :
        /\ mounted[i] /\ mounted[j]
        /\ props[i].badRequestError = Some("")
        /\ props[i].isFilteringActive = Some(TRUE)
        /\ view[i].image = "DangerIcon"
        /\ props[j].badRequestError = Undefined
        /\ props[j].isFilteringActive = Some(TRUE)
        /\ view[j].image = NoImage

====
